---- MODULE Spec2Model ----
(***************************************************************************)
(* Hybrid search / caching engine of the RAG chat service.                 *)
(*                                                                         *)
(*   src/rag/cache_utils.py   CacheManager                                 *)
(*   src/rag/text_utils.py    TextProcessor                                *)
(*   src/rag/service.py       StructuredRAGService.rag_search              *)
(*   src/rag/rag_service.py   RAGService._hybrid_search                    *)
(*                                                                         *)
(* The specifications of this module:                                      *)
(*   SpecKey   generate_cache_key applied to bounded inputs                *)
(*   Spec      one service process: search calls, cached artifacts, clock  *)
(*   SpecLive  Spec, with every step that can be taken eventually taken    *)
(*   SpecConc  several processes racing on one cache file                  *)
(*   SpecFn    _determine_weights and enhance_query_with_character         *)
(*   SpecRank  the metadata rescoring of retrieved documents               *)
(*   SpecBoot  construction of the service singleton, and the calls served *)
(*                                                                         *)
(* A Python str is a sequence of pieces (characters or literal fragments); *)
(* concatenation is \o and the empty string is << >>.                      *)
(***************************************************************************)
EXTENDS Integers, Sequences, FiniteSets, TLC

VARIABLES
    \* ---- SpecKey: inputs and outputs of generate_cache_key
    kpc, kq1, kc1, kq2, kc2, kkey1, kkey2,
    \* ---- Spec: the cache directory, the clock and the call in flight
    files,          \* cache directory: file name -> [mtime, data]
    now,            \* time.time(), in seconds
    call,           \* the search call in flight (pc and locals)
    loc,            \* the last load_or_create_cached_item call
    saved,          \* history: file name -> the search result last saved intact
    ncalls,         \* number of calls started (searches and artifact loads)
    nfail,          \* number of cache writes that failed
    service,        \* the service the process runs: "rag_search" | "hybrid_search"
    request,        \* the (query, character_info) the client sends
    webClient,      \* "ok" | "always_raises" | "hangs"
    \* ---- SpecConc: one cache file shared by writer and reader processes
    cfile, wr, rd, opened, closed,
    \* ---- SpecFn: arguments and results of the pure query functions
    fq, fctx, fweights, fenh,
    \* ---- SpecRank: one call of MetadataAwareRetriever.get_relevant_documents
    rq,             \* the query
    rjobs,          \* the names job_names.json lists
    rdocs,          \* the documents the base retriever returns, in its order
    rtop,           \* top_n
    rout,           \* PyNone before the call; then Raise or the ranked result
    rbm25,          \* PyNone, then the documents built for the BM25 index from rdocs
    \* ---- SpecBoot: start-up of the service and the calls made to it
    bkey,           \* config.GEMINI_API_KEY
    bmode,          \* "server": under api/main.py; "library": the rag package imported
    bserver,        \* "off" | "starting" | "serving" | "aborted"
    binst,          \* _structured_rag_service_instance: PyNone or the service object
    bctor,          \* the StructuredRAGService() call in progress
    breq,           \* the get_structured_rag_answer calls: made, in flight, answered
    \* ---- SpecThreads: threads of one process calling get_structured_rag_answer
    instance,       \* _structured_rag_service_instance: 0 (None) or an object number
    objects,        \* the StructuredRAGService objects constructed, in order
    thr,            \* caller thread -> its position and locals
    \* ---- SpecBuild: runs of vectorstore/build_vector_db.py main()
    processed_docs, \* ids of the documents in the processed-documents file
    vdb,            \* the vector store: doc id -> number of stored documents with it
    idcache,        \* the processed-id cache file: "absent" | "ok" | "broken", and its ids
    run             \* the build run in progress and what the last run did

keyVars  == <<kpc, kq1, kc1, kq2, kc2, kkey1, kkey2>>
svcVars  == <<files, now, call, loc, saved, ncalls, nfail, service, request, webClient>>
concVars == <<cfile, wr, rd, opened, closed>>
fnVars   == <<fq, fctx, fweights, fenh>>
rankVars == <<rq, rjobs, rdocs, rtop, rout, rbm25>>
bootVars == <<bkey, bmode, bserver, binst, bctor, breq>>
thrVars  == <<instance, objects, thr>>
buildVars == <<processed_docs, vdb, idcache, run>>
otherVars == <<fnVars, rankVars, bootVars, thrVars, buildVars>>
vars     == <<keyVars, svcVars, concVars, otherVars>>

(***************************************************************************)
(* Bounds of the model.                                                    *)
(***************************************************************************)
MaxFame      == 1    \* integer fame values 0..MaxFame
MaxCalls     == 2    \* calls per behaviour (searches and artifact loads)
MaxTicks     == 2    \* clock advances (of one short expiry) per behaviour
PickleChunks == 2    \* write() calls one pickle.dump is flushed in
MaxWriteFailures == 1 \* cache writes that fail per behaviour
MaxDocs      == 3    \* documents the base retriever returns to the rescoring
MaxRequests  == 4    \* get_structured_rag_answer calls per behaviour

(***************************************************************************)
(* Python values of a character_info entry.                                *)
(***************************************************************************)
Absent   == [t |-> "absent"]              \* key not in the dict
PyNone   == [t |-> "none"]                \* key present, value None (JSON null)
PyS(s)   == [t |-> "str", s |-> s]
PyI(i)   == [t |-> "int", i |-> i]

NoCtx    == [t |-> "noctx"]               \* character_info is None

\* bool(v) of an entry as dict.get(key) returns it
Truthy(v) ==
    CASE v.t = "absent" -> FALSE
      [] v.t = "none"   -> FALSE
      [] v.t = "str"    -> v.s # << >>
      [] v.t = "int"    -> v.i # 0

Digit(d) == CASE d = 0 -> "0" [] d = 1 -> "1" [] d = 2 -> "2" [] d = 3 -> "3"
              [] d = 4 -> "4" [] d = 5 -> "5" [] d = 6 -> "6" [] d = 7 -> "7"
              [] d = 8 -> "8" [] d = 9 -> "9"

RECURSIVE IntToStr(_)
\* str(n) for n >= 0
IntToStr(n) == IF n < 10 THEN << Digit(n) >>
               ELSE IntToStr(n \div 10) \o << Digit(n % 10) >>

\* str(v) of a value that is present
PyStr(v) ==
    CASE v.t = "none" -> << "N", "o", "n", "e" >>
      [] v.t = "str"  -> v.s
      [] v.t = "int"  -> IntToStr(v.i)

\* bool(character_info): None and the empty dict are falsy
CtxFields == { "job", "fame", "class", "weapon" }

CtxTruthy(ci) ==
    /\ ci # NoCtx
    /\ \E f \in CtxFields : ci[f] # Absent

\* character_info.get(key)
CtxGet(ci, key) == ci[key]

RECURSIVE JoinStr(_, _)
\* sep.join(parts)
JoinStr(parts, sep) ==
    IF parts = << >> THEN << >>
    ELSE IF Len(parts) = 1 THEN parts[1]
    ELSE parts[1] \o sep \o JoinStr(Tail(parts), sep)

\* list(filter(None, parts)) for str parts
FilterNonEmpty(parts) == SelectSeq(parts, LAMBDA p : p # << >>)

\* hashlib.md5(...).hexdigest(), taken as injective
md5(s) == << "md5:" >> \o s

(***************************************************************************)
(* CacheManager.generate_cache_key; jobKey is 'job' (cache_utils.py) or    *)
(* 'class' (rag_service.py).                                               *)
(***************************************************************************)
\* a key part: '' for an absent or falsy job; str(fame) for fame
JobPart(v)  == IF v.t = "str" THEN v.s ELSE << >>
FamePart(v) == IF v = Absent THEN << >> ELSE PyStr(v)

CacheInput(base, ci, jobKey) ==
    IF ~CtxTruthy(ci) THEN base
    ELSE LET char_key_parts  == << JobPart(CtxGet(ci, jobKey)),
                                   FamePart(CtxGet(ci, "fame")) >>
             simple_char_key == JoinStr(FilterNonEmpty(char_key_parts), << "-" >>)
         IN  IF simple_char_key # << >>
             THEN base \o << "|" >> \o simple_char_key
             ELSE base

generate_cache_key(base_content, character_info) ==
    md5(CacheInput(base_content, character_info, "job"))

(***************************************************************************)
(* Inputs of SpecKey.                                                      *)
(***************************************************************************)
KeyQueries == { << "a" >>, << "a", "|", "b" >>, << "a", "|", "b", "-", "1" >> }
KeyJobs    == { Absent, PyNone, PyS(<< >>), PyS(<< "b" >>), PyS(<< "b", "-", "1" >>) }
KeyFames   == { Absent, PyNone, PyS(<< >>), PyS(<< "1" >>) } \cup { PyI(i) : i \in 0..MaxFame }
KeyOthers  == { Absent, PyS(<< "w" >>) }
KeyCtxs    == { NoCtx } \cup
              [ t : {"ctx"}, job : KeyJobs, fame : KeyFames,
                class : KeyOthers, weapon : KeyOthers ]


(***************************************************************************)
(* Values the variables of a specification that does not use them keep.    *)
(***************************************************************************)
KeyParked ==
    /\ kpc = "off" /\ kq1 = << >> /\ kc1 = NoCtx /\ kq2 = << >> /\ kc2 = NoCtx
    /\ kkey1 = md5(<< >>) /\ kkey2 = md5(<< >>)

(***************************************************************************)
(* SpecKey: two (query, character_info) pairs are drawn and hashed.        *)
(***************************************************************************)
KeyInit ==
    /\ kpc = "init"
    /\ kq1 \in KeyQueries /\ kc1 \in KeyCtxs
    /\ kq2 \in KeyQueries /\ kc2 \in KeyCtxs
    /\ kkey1 = md5(<< >>) /\ kkey2 = md5(<< >>)

ComputeKeys ==
    /\ kpc = "init"
    /\ kkey1' = generate_cache_key(kq1, kc1)
    /\ kkey2' = generate_cache_key(kq2, kc2)
    /\ kpc' = "done"
    /\ UNCHANGED <<kq1, kc1, kq2, kc2, svcVars, concVars, otherVars>>

\* the job and the fame of a context as the key derivation reads them
JobOf(ci)  == IF ci = NoCtx THEN Absent ELSE CtxGet(ci, "job")
FameOf(ci) == IF ci = NoCtx THEN Absent ELSE CtxGet(ci, "fame")

\* the text the job and the fame contribute
JobText(ci)  == JobPart(JobOf(ci))
FameText(ci) == FamePart(FameOf(ci))

\* v and w are what dict.get(key) returns for the two entries: an absent key
\* reads as None
SameValue(v, w) == v = w \/ { v, w } \subseteq { Absent, PyNone }

\* c1 and c2 are dicts whose job and whose fame read the same
AgreeOnJobAndFame(c1, c2) ==
    /\ c1 # NoCtx /\ c2 # NoCtx
    /\ SameValue(JobOf(c1), JobOf(c2))
    /\ SameValue(FameOf(c1), FameOf(c2))

\* a dict that carries neither a job nor a fame (key absent, None or '')
NeitherJobNorFame(ci) ==
    /\ ci # NoCtx
    /\ JobOf(ci) \in { Absent, PyNone, PyS(<< >>) }
    /\ FameOf(ci) \in { Absent, PyNone, PyS(<< >>) }

\* C8: the key is a function of the query and of the job and the fame of the
\* context alone: two contexts that agree on job and fame give the same key
\* for the same query whatever their other fields are, and a context with
\* neither job nor fame gives the key of a call without context.
C8_KeyDependsOnJobAndFameOnly ==
    (kpc = "done" /\ kq1 = kq2) =>
        /\ AgreeOnJobAndFame(kc1, kc2) => kkey1 = kkey2
        /\ (NeitherJobNorFame(kc1) /\ kc2 = NoCtx) => kkey1 = kkey2

\* C9: two (query, job, fame) triples that differ in the query, the job or
\* the fame get different keys (the hash taken as injective).
C9_DifferentInputsDifferentKeys ==
    (/\ kpc = "done"
     /\ <<kq1, JobText(kc1), FameText(kc1)>> # <<kq2, JobText(kc2), FameText(kc2)>>)
        => kkey1 # kkey2


(***************************************************************************)
(* Program constants.                                                      *)
(***************************************************************************)
expiry_short == 43200      \* CacheManager.__init__ default, 12 hours
expiry_long  == 86400      \* CacheManager.__init__ default, 24 hours

RetrievalSecs == 1         \* wall-clock seconds one retrieval call takes
Tick == expiry_short       \* the clock advances in steps of 12 hours between calls

Raise == [t |-> "raise"]   \* an exception leaves the function

(***************************************************************************)
(* TextProcessor (text_utils.py) and its copies in rag_service.py.         *)
(***************************************************************************)
\* the context key the service reads the job from
JobKey(kind) == IF kind = "hybrid_search" THEN "class" ELSE "job"

\* the enhancements appended to the query instead of put before it
EnhanceQueryAppends(query, character_info, jobKey) ==
    IF ~CtxTruthy(character_info) THEN query
    ELSE LET job  == CtxGet(character_info, jobKey)
             fame == CtxGet(character_info, "fame")
             enhancements ==
                 (IF Truthy(job) THEN << PyStr(job) >> ELSE << >>) \o
                 (IF Truthy(fame) THEN << PyStr(fame) >> ELSE << >>)
         IN  IF enhancements # << >>
             THEN query \o << " " >> \o JoinStr(enhancements, << " " >>)
             ELSE query

enhance_query_with_character(query, character_info, jobKey) ==
    IF ~CtxTruthy(character_info) THEN query
    ELSE LET job  == CtxGet(character_info, jobKey)
             fame == CtxGet(character_info, "fame")
             enhancements ==
                 (IF Truthy(job) THEN << PyStr(job) >> ELSE << >>) \o
                 (IF Truthy(fame) THEN << PyStr(fame) >> ELSE << >>)
         IN  IF enhancements # << >>
             THEN JoinStr(enhancements, << " " >>) \o << " " >> \o query
             ELSE query

\* one "[<type> doc <i>] <content>" block, with the link line when the
\* metadata has a url
DocBlock(doc, i, context_type) ==
    << "[" >> \o context_type \o << " doc " >> \o IntToStr(i) \o << "] " >>
        \o doc.page_content
        \o (IF Truthy(doc.metadata.url)
            THEN << "<nl>link: " >> \o doc.metadata.url.s
            ELSE << >>)

format_docs_to_context_string(docs, context_type) ==
    JoinStr([ i \in 1..Len(docs) |-> DocBlock(docs[i], i, context_type) ],
            << "<nl><nl>" >>)

SourceIs(doc, names) ==
    /\ doc.metadata.source.t = "str"
    /\ doc.metadata.source.s \in names

format_web_search_docs_to_context_string(web_docs) ==
    LET mains   == SelectSeq(web_docs, LAMBDA d : SourceIs(d, { << "gemini_search" >> }))
        sources == SelectSeq(web_docs, LAMBDA d :
                       SourceIs(d, { << "grounding_source" >>, << "search_suggestions" >> }))
        entry(i) == << "source " >> \o IntToStr(i) \o << ": " >>
                        \o (IF sources[i].metadata.title.t = "str"
                            THEN sources[i].metadata.title.s
                            ELSE << "source " >> \o IntToStr(i))
                        \o (IF Truthy(sources[i].metadata.url)
                            THEN << " - " >> \o sources[i].metadata.url.s
                            ELSE << >>)
        web_context_parts ==
            (IF mains # << >>
             THEN << << "[Gemini web search]<nl>" >> \o mains[1].page_content >>
             ELSE << >>) \o
            (IF sources # << >>
             THEN << << "[references]" >> >> \o [ i \in 1..Len(sources) |-> entry(i) ]
             ELSE << >>)
    IN  IF web_context_parts # << >>
        THEN JoinStr(web_context_parts, << "<nl><nl>" >>)
        ELSE << "no web results." >>

(***************************************************************************)
(* Documents the retrievers can return.                                    *)
(***************************************************************************)
Document(content, url, source, title) ==
    [ page_content |-> content,
      metadata |-> [ url |-> url, source |-> source, title |-> title ] ]

InternalDoc1 == Document(<< "c1" >>, PyS(<< "u1" >>), Absent, Absent)
InternalDoc2 == Document(<< "c2" >>, Absent, Absent, Absent)
WebMainDoc   == Document(<< "g" >>, Absent, PyS(<< "gemini_search" >>), PyS(<< "Gemini" >>))
WebSourceDoc == Document(<< "ref1" >>, PyS(<< "u2" >>), PyS(<< "grounding_source" >>), PyS(<< "t" >>))

InternalDocLists == { << >>, << InternalDoc2, InternalDoc1 >> }
WebDocLists      == { << >>, << WebMainDoc, WebSourceDoc >> }

\* what a retrieval call does: it raises or it returns a list of documents
Returned(docs) == [ t |-> "docs", docs |-> docs ]
NotRun         == [ t |-> "notrun" ]

(***************************************************************************)
(* pickle, and a cache file as the sequence of chunks written to it.       *)
(***************************************************************************)
PickleDump(obj) == [ i \in 1..PickleChunks |-> [ obj |-> obj, idx |-> i ] ]

\* pickle.load: the chunks of one object, complete and in place; anything
\* else raises.  Bytes after the end of the pickle are not read.
PickleLoad(data) ==
    IF /\ Len(data) >= PickleChunks
       /\ \A i \in 1..PickleChunks : data[i].idx = i /\ data[i].obj = data[1].obj
    THEN [ ok |-> TRUE, obj |-> data[1].obj ]
    ELSE [ ok |-> FALSE, obj |-> PyNone ]

\* the ways "with open(cache_file, 'wb') as f: pickle.dump(obj, f)" can end
WriteOutcomes == { "ok", "open_fails", "dump_fails" }

\* the directory after that block; when dump fails the last chunk is missing
WriteCacheFile(fs, name, obj, outcome, t) ==
    CASE outcome = "ok"         -> (name :> [ mtime |-> t, data |-> PickleDump(obj) ]) @@ fs
      [] outcome = "open_fails" -> fs
      [] outcome = "dump_fails" ->
            (name :> [ mtime |-> t, data |-> SubSeq(PickleDump(obj), 1, PickleChunks - 1) ]) @@ fs

WriteRaises(outcome) == outcome # "ok"

\* file_age < expiry
IsFreshInclusive(file_age, expiry) == file_age <= expiry

IsFresh(file_age, expiry) == file_age < expiry

CacheFileName(cache_type, cache_key) == << cache_type, "_" >> \o cache_key \o << ".pkl" >>

SearchKey(query, character_info, jobKey) == md5(CacheInput(query, character_info, jobKey))

(***************************************************************************)
(* CacheManager.get_cached_search_result                                   *)
(***************************************************************************)
GetCachedLoadErrorEscapes(fs, query, cache_type, character_info, jobKey, t) ==
    LET cache_file == CacheFileName(cache_type, SearchKey(query, character_info, jobKey))
    IN  IF cache_file \in DOMAIN fs /\ IsFresh(t - fs[cache_file].mtime, expiry_short)
        THEN IF PickleLoad(fs[cache_file].data).ok
             THEN PickleLoad(fs[cache_file].data).obj
             ELSE Raise
        ELSE PyNone

GetCachedIgnoresContext(fs, query, cache_type, character_info, jobKey, t) ==
    LET cache_file == CacheFileName(cache_type, SearchKey(query, NoCtx, jobKey))
    IN  IF cache_file \in DOMAIN fs /\ IsFresh(t - fs[cache_file].mtime, expiry_short)
        THEN IF PickleLoad(fs[cache_file].data).ok
             THEN PickleLoad(fs[cache_file].data).obj
             ELSE PyNone
        ELSE PyNone

get_cached_search_result(fs, query, cache_type, character_info, jobKey, t) ==
    LET cache_file == CacheFileName(cache_type, SearchKey(query, character_info, jobKey))
    IN  IF cache_file \in DOMAIN fs /\ IsFresh(t - fs[cache_file].mtime, expiry_short)
        THEN IF PickleLoad(fs[cache_file].data).ok
             THEN PickleLoad(fs[cache_file].data).obj
             ELSE PyNone            \* except Exception: falls through to return None
        ELSE PyNone

(***************************************************************************)
(* CacheManager.save_search_result_to_cache                                *)
(***************************************************************************)
SaveWriteErrorEscapes(fs, query, result, cache_type, character_info, jobKey, outcome, t) ==
    LET cache_file == CacheFileName(cache_type, SearchKey(query, character_info, jobKey))
    IN  [ files  |-> WriteCacheFile(fs, cache_file, result, outcome, t),
          raised |-> WriteRaises(outcome) ]

save_search_result_to_cache(fs, query, result, cache_type, character_info, jobKey, outcome, t) ==
    LET cache_file == CacheFileName(cache_type, SearchKey(query, character_info, jobKey))
    IN  [ files  |-> WriteCacheFile(fs, cache_file, result, outcome, t),
          raised |-> FALSE ]        \* except Exception: logged

(***************************************************************************)
(* CacheManager.load_or_create_cached_item; created is what                *)
(* creation_func() does when it is called: an item, or Raise.              *)
(***************************************************************************)
\* a load that also sets the file's modification time to the time of the load
LoadOrCreateTouchesOnHit(fs, cache_file, created, expiry_seconds, outcome, t) ==
    LET fresh  == cache_file \in DOMAIN fs /\ IsFresh(t - fs[cache_file].mtime, expiry_seconds)
        loaded == IF fresh THEN PickleLoad(fs[cache_file].data) ELSE [ ok |-> FALSE, obj |-> PyNone ]
    IN  IF fresh /\ loaded.ok
        THEN [ ret |-> loaded.obj,
               files |-> [ fs EXCEPT ![cache_file].mtime = t ],
               creates |-> 0, wrote |-> FALSE ]
        ELSE IF created = Raise
        THEN [ ret |-> Raise, files |-> fs, creates |-> 1, wrote |-> FALSE ]
        ELSE [ ret |-> created,
               files |-> WriteCacheFile(fs, cache_file, created, outcome, t),
               creates |-> 1, wrote |-> TRUE ]

load_or_create_cached_item(fs, cache_file, created, expiry_seconds, outcome, t) ==
    LET fresh  == cache_file \in DOMAIN fs /\ IsFresh(t - fs[cache_file].mtime, expiry_seconds)
        loaded == IF fresh THEN PickleLoad(fs[cache_file].data) ELSE [ ok |-> FALSE, obj |-> PyNone ]
    IN  IF fresh /\ loaded.ok
        THEN [ ret |-> loaded.obj, files |-> fs, creates |-> 0, wrote |-> FALSE ]
        ELSE IF created = Raise
        THEN [ ret |-> Raise, files |-> fs, creates |-> 1, wrote |-> FALSE ]
        ELSE [ ret |-> created,
               files |-> WriteCacheFile(fs, cache_file, created, outcome, t),
               creates |-> 1, wrote |-> TRUE ]


(***************************************************************************)
(* Spec: one service process.  The cached artifacts of the retrievers, the *)
(* search calls of the service the process runs, and the clock.            *)
(***************************************************************************)
EmptyFn == [ x \in {} |-> 0 ]

SvcKinds   == { "rag_search", "hybrid_search" }
CtxB       == [ t |-> "ctx", job |-> PyS(<< "b" >>), fame |-> Absent,
                class |-> PyS(<< "b" >>), weapon |-> Absent ]
\* the (query, character_info) pairs a client sends
SvcInputs  == { << << "a" >>, NoCtx >>, << << "a" >>, CtxB >> }

\* bool(x) of what a cache lookup returned
\* a result without internal documents taken for a miss
ResultTruthyNeedsDocs(x) ==
    CASE x.t = "none"  -> FALSE
      [] x.t = "list"  -> x.docs # << >>
      [] x.t = "dict"  -> x.internal_docs # << >>
      [] OTHER         -> TRUE

ResultTruthy(x) ==
    CASE x.t = "none"  -> FALSE
      [] x.t = "list"  -> x.docs # << >>
      [] OTHER         -> TRUE

ListObj(docs) == [ t |-> "list", docs |-> docs ]

NoTimes == [ internal_search |-> 0, web_search |-> 0, total_search |-> 0 ]

IdleCall ==
    [ pc |-> "idle", query |-> << >>, ctx |-> NoCtx,
      pre |-> [ had |-> FALSE, R |-> PyNone ],
      chk |-> [ exists |-> FALSE, age |-> 0, corrupt |-> FALSE, got |-> PyNone ],
      hit |-> FALSE, start |-> 0, enhanced |-> << >>,
      intSt |-> "off", intDocs |-> Returned(<< >>), intOut |-> NotRun, intRuns |-> 0,
      webSt |-> "off", webDocs |-> Returned(<< >>), webOut |-> NotRun, webRuns |-> 0,
      gout |-> "none",
      intStarts |-> 0, webStarts |-> 0,     \* times each branch function was entered
      prevInt |-> NotRun,                   \* the retrieval outcome of the call before, if it saved
      times |-> NoTimes, result |-> PyNone, wout |-> "none", ret |-> PyNone ]

NoLoc ==
    [ file |-> << >>, expiry |-> 0, existed |-> FALSE, age |-> 0, corrupt |-> FALSE,
      creates |-> 0, created |-> NotRun, wout |-> "none", ret |-> PyNone ]

\* history: what the directory holds intact after a write
Remember(sv, name, query, ci, obj, outcome, t) ==
    CASE outcome = "ok"         -> (name :> [ query |-> query, ctx |-> ci, obj |-> obj, at |-> t ]) @@ sv
      [] outcome = "open_fails" -> sv
      [] outcome = "dump_fails" -> [ n \in (DOMAIN sv) \ { name } |-> sv[n] ]

SvcParked ==
    /\ files = EmptyFn /\ now = 0 /\ call = IdleCall /\ loc = NoLoc
    /\ saved = EmptyFn /\ ncalls = 0 /\ nfail = 0
    /\ service = "rag_search" /\ webClient = "ok"
    /\ request = << << >>, NoCtx >>

SvcInit ==
    /\ files = EmptyFn /\ now = 0 /\ call = IdleCall /\ loc = NoLoc
    /\ saved = EmptyFn /\ ncalls = 0 /\ nfail = 0
    /\ service \in SvcKinds
    /\ request \in SvcInputs
    /\ webClient \in IF service = "hybrid_search"
                     THEN { "ok", "always_raises", "hangs" } ELSE { "ok" }

notSvc == << keyVars, concVars, otherVars >>

Quiet == call.pc \in { "idle", "done" }

\* the outcomes a write can have now
WriteOutcomesNow == IF nfail < MaxWriteFailures THEN WriteOutcomes ELSE { "ok" }

Failed(outcome) == IF outcome = "ok" THEN 0 ELSE 1

\* ---- time passes between calls
TickClock ==
    /\ Quiet
    /\ now \div Tick < MaxTicks
    /\ now' = now + Tick
    /\ call' = IdleCall /\ loc' = NoLoc
    /\ UNCHANGED <<files, saved, ncalls, nfail, service, request, webClient, notSvc>>

\* ---- the cached artifacts (service.py _get_bm25_retriever,
\*      _get_cross_encoder_model): file name and expiry class
get_bm25_retriever       == [ file |-> << "bm25_retriever.pkl" >>, expiry |-> expiry_short ]
get_cross_encoder_model  == [ file |-> << "cross_encoder.pkl" >>, expiry |-> expiry_long ]

Artifacts == { get_bm25_retriever, get_cross_encoder_model }
Items(a)  == { [ t |-> "item", of |-> a.file, ver |-> v ] : v \in { 1, 2 } }

LoadOrCreate(a) ==
    /\ Quiet
    /\ ncalls < MaxCalls
    /\ ncalls' = ncalls + 1
    /\ \E created \in Items(a) \cup { Raise }, outcome \in WriteOutcomesNow :
         LET r       == load_or_create_cached_item(files, a.file, created, a.expiry, outcome, now)
             existed == a.file \in DOMAIN files
         IN  /\ files' = r.files
             /\ saved' = IF r.wrote
                         THEN Remember(saved, a.file, << >>, NoCtx, created, outcome, now)
                         ELSE saved
             /\ nfail' = IF r.wrote THEN nfail + Failed(outcome) ELSE nfail
             /\ loc' = [ file |-> a.file, expiry |-> a.expiry, existed |-> existed,
                         age |-> IF existed THEN now - files[a.file].mtime ELSE 0,
                         corrupt |-> existed /\ ~PickleLoad(files[a.file].data).ok,
                         creates |-> r.creates,
                         created |-> IF r.creates > 0 THEN created ELSE NotRun,
                         wout |-> IF r.wrote THEN outcome ELSE "none",
                         ret |-> r.ret ]
    /\ call' = IdleCall
    /\ UNCHANGED <<now, service, request, webClient, notSvc>>

\* ---- a search call: rag_search (service.py) or _hybrid_search (rag_service.py)
SearchFile(kind, query, ci) == CacheFileName(kind, SearchKey(query, ci, JobKey(kind)))

StartCall ==
    /\ Quiet
    /\ ncalls < MaxCalls
    /\ LET query == request[1]
           ci    == request[2]
           name  == SearchFile(service, query, ci)
           had  == /\ name \in DOMAIN saved
                   /\ saved[name].query = query /\ saved[name].ctx = ci
                   /\ now - saved[name].at < expiry_short
       IN  call' = [ IdleCall EXCEPT !.pc = "check", !.query = query, !.ctx = ci,
                                     !.prevInt = IF call.pc = "done" /\ call.wout = "ok"
                                                 THEN call.intOut ELSE NotRun,
                                     !.pre = IF had THEN [ had |-> TRUE, R |-> saved[name].obj ]
                                             ELSE [ had |-> FALSE, R |-> PyNone ] ]
    /\ ncalls' = ncalls + 1
    /\ loc' = NoLoc
    /\ UNCHANGED <<files, now, saved, nfail, service, request, webClient, notSvc>>

CheckCache ==
    /\ call.pc = "check"
    /\ LET name   == SearchFile(service, call.query, call.ctx)
           exists == name \in DOMAIN files
           cached_result == get_cached_search_result(files, call.query, service, call.ctx,
                                                     JobKey(service), now)
           chk    == [ exists |-> exists,
                       age |-> IF exists THEN now - files[name].mtime ELSE 0,
                       corrupt |-> exists /\ ~PickleLoad(files[name].data).ok,
                       got |-> cached_result ]
       IN  call' = IF cached_result = Raise
                   THEN [ call EXCEPT !.pc = "done", !.chk = chk, !.ret = Raise ]
                   ELSE IF ResultTruthy(cached_result)
                   THEN [ call EXCEPT !.pc = "done", !.chk = chk, !.hit = TRUE,
                                      !.ret = cached_result ]
                   ELSE [ call EXCEPT !.pc = "enhance", !.chk = chk, !.start = now ]
    /\ UNCHANGED <<files, now, loc, saved, ncalls, nfail, service, request, webClient, notSvc>>

\* enhance the query and start the branches (hybrid: both are submitted to the
\* executor; rag_search: the internal branch alone)
Enhance ==
    /\ call.pc = "enhance"
    /\ call' = [ call EXCEPT
                   !.pc = "running",
                   !.enhanced = enhance_query_with_character(call.query, call.ctx, JobKey(service)),
                   !.intSt = "submitted",
                   !.webSt = IF service = "hybrid_search" THEN "submitted" ELSE "off" ]
    /\ UNCHANGED <<files, now, loc, saved, ncalls, nfail, service, request, webClient, notSvc>>

\* what the retriever chain and the web-search client do when they are called
InternalOutcomes == { Raise } \cup { Returned(d) : d \in InternalDocLists }

\* generate_content never returns: the call is made without a timeout
Hang == [t |-> "hang"]

WebOutcomes ==
    CASE webClient = "always_raises" -> { Raise }
      [] webClient = "hangs"         -> { Hang }
      [] OTHER                       -> { Raise } \cup { Returned(d) : d \in WebDocLists }

\* _search_internal: try ... except Exception: return []
SearchInternalErrorEscapes(out) == out

search_internal(out) == IF out = Raise THEN Returned(<< >>) ELSE out

\* The branches run side by side: a retrieval that is made takes RetrievalSecs
\* on the wall clock, so a branch that started at call.start reads BranchEnd at
\* its end, and the caller that joins them goes on at that time.
BranchEnd(called) == IF called THEN call.start + RetrievalSecs ELSE call.start

\* the internal branch submitted again after its retrieval raised
IntRunRetried ==
    /\ call.pc = "running" /\ call.intSt = "submitted"
    /\ \E out \in InternalOutcomes :
         call' = [ call EXCEPT !.intSt = IF out = Raise /\ call.intStarts = 0
                                         THEN "submitted" ELSE "done",
                               !.intDocs = search_internal(out),
                               !.intOut = out,
                               !.intRuns = @ + 1,
                               !.intStarts = @ + 1,
                               !.times.internal_search = BranchEnd(TRUE) - call.start ]
    /\ UNCHANGED <<files, now, loc, saved, ncalls, nfail, service, request, webClient, notSvc>>

\* the internal branch runs
IntRun ==
    /\ call.pc = "running" /\ call.intSt = "submitted"
    /\ \E out \in InternalOutcomes :
         call' = [ call EXCEPT !.intSt = "done",
                               !.intDocs = search_internal(out),
                               !.intOut = out,
                               !.intRuns = @ + 1,
                               !.intStarts = @ + 1,
                               !.times.internal_search = BranchEnd(TRUE) - call.start ]
    /\ UNCHANGED <<files, now, loc, saved, ncalls, nfail, service, request, webClient, notSvc>>

\* _gemini_search_grounding: own cache read at time t, then the client, whose
\* call takes RetrievalSecs; out is what the client call does when it is made
gemini_search_grounding(fs, query, ci, out, outcome, t) ==
    LET cached_result == get_cached_search_result(fs, query, "gemini_search", ci, "class", t)
    IN  IF cached_result # Raise /\ ResultTruthy(cached_result)
        THEN [ ret |-> Returned(cached_result.docs), files |-> fs,
               called |-> FALSE, wrote |-> FALSE ]
        ELSE IF out = Raise
        THEN [ ret |-> Returned(<< >>), files |-> fs, called |-> TRUE, wrote |-> FALSE ]
        ELSE IF out = Hang
        THEN [ ret |-> Hang, files |-> fs, called |-> TRUE, wrote |-> FALSE ]
        ELSE [ ret |-> out,
               files |-> save_search_result_to_cache(fs, query, ListObj(out.docs),
                             "gemini_search", ci, "class", outcome, t + RetrievalSecs).files,
               called |-> TRUE, wrote |-> TRUE ]

\* _search_web: try ... except Exception: return []
search_web(fs, query, ci, out, outcome, t) ==
    gemini_search_grounding(fs, query, ci, out, outcome, t)

\* the web branch runs; a client call that hangs leaves the branch, and the
\* future.result() that waits for it, blocked for good
WebRun ==
    /\ call.pc = "running" /\ call.webSt = "submitted"
    /\ \E out \in WebOutcomes, outcome \in WriteOutcomesNow :
         LET g    == search_web(files, call.query, call.ctx, out, outcome, call.start)
             name == CacheFileName("gemini_search", SearchKey(call.query, call.ctx, "class"))
         IN  /\ files' = g.files
             /\ saved' = IF g.wrote
                         THEN Remember(saved, name, call.query, call.ctx, ListObj(out.docs),
                                       outcome, BranchEnd(TRUE))
                         ELSE saved
             /\ nfail' = IF g.wrote THEN nfail + Failed(outcome) ELSE nfail
             /\ call' = [ call EXCEPT !.webSt = IF g.ret = Hang THEN "hung" ELSE "done",
                                      !.webDocs = g.ret,
                                      !.webOut = IF g.called THEN out ELSE NotRun,
                                      !.gout = IF g.wrote THEN outcome ELSE "none",
                                      !.webRuns = IF g.called THEN @ + 1 ELSE @,
                                      !.webStarts = @ + 1,
                                      !.times.web_search = BranchEnd(g.called) - call.start ]
    /\ UNCHANGED <<now, loc, ncalls, service, request, webClient, notSvc>>

\* the result dict of each service
RagResult(internal_docs, enhanced_query, times) ==
    [ t |-> "dict",
      internal_docs |-> internal_docs,
      internal_context_provided_to_llm |-> format_docs_to_context_string(internal_docs, << "internal" >>),
      enhanced_query |-> enhanced_query,
      search_times |-> [ internal_search |-> times.internal_search ] ]

UsedWebSearchAlways(web_docs) == TRUE

used_web_search(web_docs) == web_docs # << >>       \* bool(web_docs)

HybridResult(internal_docs, web_docs, enhanced_query, times) ==
    [ t |-> "dict",
      all_docs |-> internal_docs \o web_docs,
      internal_docs |-> internal_docs,
      web_docs |-> web_docs,
      internal_context_provided_to_llm |-> format_docs_to_context_string(internal_docs, << "internal" >>),
      web_context_provided_to_llm |-> format_web_search_docs_to_context_string(web_docs),
      used_web_search |-> used_web_search(web_docs),
      enhanced_query |-> enhanced_query,
      search_times |-> times ]

\* both branches have been joined (future.result() re-raises what escaped a
\* branch): timings and context strings
Merge ==
    /\ call.pc = "running"
    /\ call.intSt = "done" /\ call.webSt \in { "done", "off" }
    /\ now' = BranchEnd(TRUE)
    /\ call' = IF call.intDocs = Raise \/ call.webDocs = Raise
               THEN [ call EXCEPT !.pc = "done", !.ret = Raise ]
               ELSE IF service = "rag_search"
               THEN LET times == [ call.times EXCEPT !.internal_search = now' - call.start ]
                    IN  [ call EXCEPT !.pc = "save", !.times = times,
                                      !.result = RagResult(call.intDocs.docs, call.enhanced, times) ]
               ELSE LET times == [ call.times EXCEPT !.total_search = now' - call.start ]
                    IN  [ call EXCEPT !.pc = "save", !.times = times,
                                      !.result = HybridResult(call.intDocs.docs, call.webDocs.docs,
                                                              call.enhanced, times) ]
    /\ UNCHANGED <<files, loc, saved, ncalls, nfail, service, request, webClient, notSvc>>

\* save the result and return it
Save ==
    /\ call.pc = "save"
    /\ \E outcome \in WriteOutcomesNow :
         LET s == save_search_result_to_cache(files, call.query, call.result, service,
                                              call.ctx, JobKey(service), outcome, now)
         IN  /\ files' = s.files
             /\ saved' = Remember(saved, SearchFile(service, call.query, call.ctx),
                                  call.query, call.ctx, call.result, outcome, now)
             /\ nfail' = nfail + Failed(outcome)
             /\ call' = [ call EXCEPT !.pc = "done", !.wout = outcome,
                                      !.ret = IF s.raised THEN Raise ELSE call.result ]
    /\ UNCHANGED <<now, loc, ncalls, service, request, webClient, notSvc>>

(***************************************************************************)
(* SpecConc: processes of several workers save and read a search result    *)
(* under one cache key.  A save opens the file with 'wb' (which truncates  *)
(* it) and flushes the pickle in PickleChunks writes at its own offset; a  *)
(* read is exists(), then open and pickle.load inside try/except.          *)
(***************************************************************************)
NumWriters == 2
NumReaders == 1

Writers == 1..NumWriters
Readers == 1..NumReaders

Payload(w) == [ t |-> "dict", id |-> w ]
Hole       == [ obj |-> [ t |-> "hole" ], idx |-> 0 ]

\* the file after write() of one chunk at offset pos (a gap left by a
\* truncation reads as zero bytes)
WriteAt(data, pos, chunk) ==
    [ i \in 1..(IF Len(data) > pos THEN Len(data) ELSE pos) |->
        IF i = pos THEN chunk
        ELSE IF i <= Len(data) THEN data[i] ELSE Hole ]

notConc == << keyVars, svcVars, otherVars >>

ConcParked ==
    /\ cfile = [ exists |-> FALSE, data |-> << >> ]
    /\ wr = << >> /\ rd = << >> /\ opened = << >> /\ closed = << >>

ConcInit ==
    /\ cfile = [ exists |-> FALSE, data |-> << >> ]
    /\ wr = [ w \in Writers |-> [ pc |-> "start", pos |-> 0, raised |-> FALSE ] ]
    /\ rd = [ r \in Readers |-> [ pc |-> "start", ret |-> PyNone, raised |-> FALSE ] ]
    /\ opened = << >>
    /\ closed = << >>

\* open(cache_file, 'wb')
WrOpen(w) ==
    /\ wr[w].pc = "start"
    /\ cfile' = [ exists |-> TRUE, data |-> << >> ]
    /\ wr' = [ wr EXCEPT ![w] = [ @ EXCEPT !.pc = "writing", !.pos = 1 ] ]
    /\ opened' = Append(opened, w)
    /\ UNCHANGED <<rd, closed, notConc>>

\* one flush of pickle.dump; the last one is followed by close()
WrWrite(w) ==
    /\ wr[w].pc = "writing"
    /\ cfile' = [ cfile EXCEPT !.data = WriteAt(@, wr[w].pos, PickleDump(Payload(w))[wr[w].pos]) ]
    /\ IF wr[w].pos = PickleChunks
       THEN /\ wr' = [ wr EXCEPT ![w] = [ @ EXCEPT !.pc = "closed" ] ]
            /\ closed' = Append(closed, w)
       ELSE /\ wr' = [ wr EXCEPT ![w] = [ @ EXCEPT !.pos = @ + 1 ] ]
            /\ closed' = closed
    /\ UNCHANGED <<rd, opened, notConc>>

\* if cache_file.exists(): (the file is younger than the expiry)
RdExists(r) ==
    /\ rd[r].pc = "start"
    /\ rd' = [ rd EXCEPT ![r] = IF cfile.exists
                                THEN [ @ EXCEPT !.pc = "load" ]
                                ELSE [ @ EXCEPT !.pc = "done", !.ret = PyNone ] ]
    /\ UNCHANGED <<cfile, wr, opened, closed, notConc>>

\* try: return pickle.load(f)  except Exception: ... return None
RdLoad(r) ==
    /\ rd[r].pc = "load"
    /\ rd' = [ rd EXCEPT ![r] = [ @ EXCEPT !.pc = "done",
                                           !.ret = IF PickleLoad(cfile.data).ok
                                                   THEN PickleLoad(cfile.data).obj
                                                   ELSE PyNone ] ]
    /\ UNCHANGED <<cfile, wr, opened, closed, notConc>>

\* the reader looks again
RdAgain(r) ==
    /\ rd[r].pc = "done"
    /\ rd' = [ rd EXCEPT ![r] = [ @ EXCEPT !.pc = "start", !.ret = PyNone ] ]
    /\ UNCHANGED <<cfile, wr, opened, closed, notConc>>

ConcStep ==
    \/ \E w \in Writers : WrOpen(w)
    \/ \E w \in Writers : WrWrite(w)
    \/ \E r \in Readers : RdExists(r)
    \/ \E r \in Readers : RdLoad(r)
    \/ \E r \in Readers : RdAgain(r)

(***************************************************************************)
(* Properties of the search calls and of the cache (checked under Spec).   *)
(***************************************************************************)
IsResult(x) == x.t = "dict"
Raised(x)   == x.t = "raise"
Done        == call.pc = "done"
Hybrid      == service = "hybrid_search"
WriteFailed(outcome) == outcome \in { "open_fails", "dump_fails" }

\* C1: when an earlier call with this (query, context) returned R and its
\* cache write succeeded, and the file is younger than the short expiry when
\* the next call with the same (query, context) starts, that call returns a
\* result equal to R in every field, from the cache, and runs neither the
\* internal retrieval nor the web search.
C1_CachedResultServed ==
    (Done /\ call.pre.had) =>
        /\ call.ret = call.pre.R
        /\ call.hit
        /\ call.intRuns = 0 /\ call.webRuns = 0
        /\ call.intSt = "off" /\ call.webSt = "off"

C1_Witness ==
    /\ Done /\ call.pre.had /\ call.hit
    /\ ncalls = 2
    /\ IsResult(call.ret) /\ call.ret.internal_docs # << >>
    /\ call.ctx = CtxB

\* C2: in a search, a branch that raises contributes the empty list for that
\* branch only: the call still returns a result, and the documents the other
\* branch returned are in the result unchanged.
C2_BranchFailureIsolated ==
    (Done /\ (Raised(call.intOut) \/ Raised(call.webOut))) =>
        /\ IsResult(call.ret)
        /\ Raised(call.intOut) => call.ret.internal_docs = << >>
        /\ (Hybrid /\ Raised(call.webOut)) => call.ret.web_docs = << >>
        /\ (Hybrid /\ Raised(call.intOut)) =>
               /\ call.ret.web_docs = call.webDocs.docs
               /\ call.webOut.t = "docs" => call.ret.web_docs = call.webOut.docs
        /\ (Hybrid /\ Raised(call.webOut) /\ call.intOut.t = "docs") =>
               call.ret.internal_docs = call.intOut.docs

C2_Witness ==
    /\ Done /\ Hybrid
    /\ Raised(call.intOut)
    /\ call.webOut = Returned(<< WebMainDoc, WebSourceDoc >>)
    /\ call.ret.web_docs = << WebMainDoc, WebSourceDoc >>
    /\ call.ret.internal_docs = << >>

\* C3: with a web-search client that always raises, a hybrid search returns a
\* result (no exception escapes) in which used_web_search is False and
\* web_docs is empty; when the internal retrieval returned documents, they
\* are the result's internal_docs.
C3_WebClientDownStillAnswers ==
    (Done /\ Hybrid /\ webClient = "always_raises") =>
        /\ IsResult(call.ret)
        /\ call.ret.used_web_search = FALSE
        /\ call.ret.web_docs = << >>
        /\ (call.intOut.t = "docs" /\ call.intOut.docs # << >>) =>
               /\ call.ret.internal_docs = call.intOut.docs
               /\ call.ret.internal_docs # << >>

C3_Witness ==
    /\ Done /\ Hybrid /\ webClient = "always_raises"
    /\ call.ctx = NoCtx
    /\ Raised(call.webOut)
    /\ call.intOut = Returned(<< InternalDoc2, InternalDoc1 >>)
    /\ IsResult(call.ret) /\ call.ret.used_web_search = FALSE

\* C4: a search that yields no documents at all returns a result whose
\* document lists are empty and whose internal context text is not the empty
\* string (format_docs_to_context_string never returns "" for an empty list).
C4_EmptySearchHasPlaceholder ==
    (/\ Done /\ IsResult(call.ret)
     /\ call.ret.internal_docs = << >>
     /\ Hybrid => call.ret.web_docs = << >>) =>
        call.ret.internal_context_provided_to_llm # << >>

\* C5: an entry whose age has reached its expiry is never returned:
\* get_cached_search_result returns None when age >= expiry_short, and
\* load_or_create_cached_item calls the creation function and returns what it
\* created when age >= expiry_seconds; when the write goes through, the file
\* holds the created item from then on.
C5_ExpiredNeverReturned ==
    /\ (call.pc \notin { "idle", "check" } /\ call.chk.exists /\ call.chk.age >= expiry_short) =>
           /\ call.chk.got = PyNone
           /\ ~call.hit
    /\ (loc.existed /\ loc.age >= loc.expiry) =>
           /\ loc.creates = 1
           /\ loc.ret = loc.created
           /\ loc.wout = "ok" =>
                  /\ PickleLoad(files[loc.file].data) = [ ok |-> TRUE, obj |-> loc.created ]
                  /\ files[loc.file].mtime = now

C5_Witness ==
    /\ loc.existed /\ loc.age = loc.expiry /\ ~loc.corrupt
    /\ loc.creates = 1 /\ loc.wout = "ok"
    /\ loc.ret = loc.created /\ loc.ret.t = "item"

\* C6: a cache file that exists, is unexpired and does not deserialize is a
\* miss and raises nothing: get_cached_search_result returns None, and
\* load_or_create_cached_item calls the creation function exactly once and
\* returns what it produced.
C6_CorruptFileIsMiss ==
    /\ (/\ call.pc \notin { "idle", "check" }
        /\ call.chk.exists /\ call.chk.corrupt /\ call.chk.age < expiry_short) =>
           /\ call.chk.got = PyNone
           /\ ~call.hit
           /\ ~Raised(call.ret)
    /\ (loc.existed /\ loc.corrupt /\ loc.age < loc.expiry) =>
           /\ loc.creates = 1
           /\ loc.ret = loc.created

C6_Witness ==
    /\ Done /\ call.chk.exists /\ call.chk.corrupt /\ call.chk.age < expiry_short
    /\ call.chk.got = PyNone
    /\ call.intRuns = 1 /\ IsResult(call.ret)

\* C7: a failed cache write is not fatal: load_or_create_cached_item returns
\* the created item, save_search_result_to_cache does not raise, and the
\* search call returns the result it had built before the write (the web
\* branch likewise returns the documents the client gave it).
C7_WriteFailureNotFatal ==
    /\ WriteFailed(loc.wout) =>
           /\ loc.created # NotRun /\ loc.created # Raise
           /\ loc.ret = loc.created
    /\ (Done /\ WriteFailed(call.wout)) =>
           /\ IsResult(call.ret)
           /\ call.ret = call.result
    /\ (call.webSt = "done" /\ WriteFailed(call.gout)) =>
           call.webDocs = call.webOut

C7_Witness ==
    /\ Done /\ call.wout = "dump_fails"
    /\ IsResult(call.ret) /\ call.ret = call.result
    /\ call.ret.internal_docs # << >>

(***************************************************************************)
(* Property of concurrent saves and reads (checked under SpecConc).        *)
(***************************************************************************)
\* C10: under any interleaving of the writers and readers of one cache key,
\* nobody raises, every finished read returned None or the complete payload
\* of some writer, and once all writers have closed the file it holds the
\* payload of the last writer.
C10_ConcurrentSavesKeepLastPayload ==
    /\ \A w \in Writers : ~wr[w].raised
    /\ \A r \in Readers : ~rd[r].raised
    /\ \A r \in Readers :
           rd[r].pc = "done" => (rd[r].ret = PyNone \/ \E w \in Writers : rd[r].ret = Payload(w))
    /\ Len(closed) = NumWriters =>
           /\ PickleLoad(cfile.data).ok
           /\ PickleLoad(cfile.data).obj \in { Payload(opened[NumWriters]), Payload(closed[NumWriters]) }

(***************************************************************************)
(* SpecFn: the pure query functions, applied to bounded arguments.         *)
(*   src/rag/service.py     StructuredRAGService._determine_weights        *)
(*   src/rag/text_utils.py  TextProcessor.enhance_query_with_character     *)
(* A query is a sequence of characters here; a Hangul syllable is one      *)
(* character, written in its romanised form.                               *)
(***************************************************************************)
\* str.lower(): cased letters fold, Hangul and punctuation are kept
Lower(s) ==
    [ i \in 1..Len(s) |->
        CASE s[i] = "A" -> "a" [] s[i] = "B" -> "b" [] s[i] = "E" -> "e"
          [] s[i] = "L" -> "l" [] s[i] = "F" -> "f" [] s[i] = "M" -> "m"
          [] OTHER -> s[i] ]

\* sub in s
Contains(s, sub) ==
    \E i \in 0..(Len(s) - Len(sub)) : SubSeq(s, i + 1, i + Len(sub)) = sub

RecencyKeywords ==
    { << "choe", "sin" >>, << "eop", "de", "i", "teu" >>, << "hyeon", "jae" >>,
      << "pae", "chi" >>, << "jong", "gyeol" >> }

\* the weights swapped: the vector weight is the default's larger one
DetermineWeightsSwapped(query, character_info) ==
    IF \E k \in RecencyKeywords : Contains(Lower(query), k)
    THEN << 3, 7 >> ELSE << 7, 3 >>

\* [vector, BM25] weights, in tenths
determine_weights(query, character_info) ==
    LET query_lower == Lower(query)
    IN  IF \E k \in RecencyKeywords : Contains(query_lower, k)
        THEN << 7, 3 >>
        ELSE << 3, 7 >>

FnQueries ==
    { << "choe", "sin", " ", "pae", "chi", " ", "nae", "yong" >>,   \* "choesin paechi naeyong"
      << "seu", "kil", " ", "teu", "ri" >>,                     \* no keyword
      << "choe", " ", "sin", " ", "pae", " ", "chi" >>,            \* keywords broken up
      << "A", "B", " ", "hyeon", "jae" >> }                      \* cased letters and a keyword

FnParked ==
    /\ fq = << >>
    /\ fctx = NoCtx
    /\ fweights = PyNone
    /\ fenh = << >>

FnInit ==
    /\ fq \in FnQueries
    /\ fctx \in KeyCtxs
    /\ fweights = PyNone
    /\ fenh = << >>

DetermineWeights ==
    /\ fweights = PyNone
    /\ fweights' = determine_weights(fq, fctx)
    /\ UNCHANGED << fq, fctx, fenh, keyVars, svcVars, concVars, rankVars, bootVars, thrVars, buildVars >>

\* one call of enhance_query_with_character; the function is called twice
EnhanceQuery ==
    /\ Len(fenh) < 2
    /\ fenh' = Append(fenh, enhance_query_with_character(fq, fctx, "job"))
    /\ UNCHANGED << fq, fctx, fweights, keyVars, svcVars, concVars, rankVars, bootVars, thrVars, buildVars >>

\* C11: the weights (dense, lexical) sum to 1.0; a query with a recency
\* keyword gets dense > lexical and dense >= 0.6; a query without one gets
\* lexical > dense, whatever the character context is.
C11_WeightsFollowRecencyKeyword ==
    fweights # PyNone =>
        LET dense      == fweights[1]
            lexical    == fweights[2]
            hasKeyword == \E k \in RecencyKeywords : Contains(fq, k)
        IN  /\ dense + lexical = 10
            /\ hasKeyword => (dense > lexical /\ dense >= 6)
            /\ ~hasKeyword => lexical > dense

\* the query "choesin paechi naeyong" with no context has been weighted
C11_Witness ==
    /\ fweights # PyNone
    /\ fq = << "choe", "sin", " ", "pae", "chi", " ", "nae", "yong" >>
    /\ fctx = NoCtx

top_n_default == 40

\* the contents of job_names.json (the file is data, not part of src/)
JobNameLists ==
    { << << "m", "a", "g", "e" >>, << "e", "l", "f" >> >>,
      << << "E", "l", "f" >> >> }

\* JOB_NAMES = {name.lower(): name}: the first lower-cased name, in the
\* order of the file, that the text contains; its value is the original
\* spelling (of the last name of the file with that lower-cased form)
find_job_in_text(text, names) ==
    LET text_lower == Lower(text)
        hits == { i \in 1..Len(names) : Contains(text_lower, Lower(names[i])) }
    IN  IF hits = { } THEN PyNone
        ELSE LET first == CHOOSE i \in hits : \A j \in hits : i <= j
                 same  == { j \in 1..Len(names) : Lower(names[j]) = Lower(names[first]) }
                 last  == CHOOSE j \in same : \A k \in same : k <= j
             IN  PyS(names[last])

RankQueries ==
    { << "e", "l", "f", " ", "s", "k", "i", "l", "l" >>,      \* one job, a word of its own
      << "m", "a", "g", "e", " ", "e", "l", "f", "s" >>,      \* two jobs, the second with a suffix
      << "E", "L", "F", "s", " ", "o", "k" >>,                \* upper case, with a suffix
      << "t", "i", "p", "s" >> }                              \* no job

\* the candidate documents: id is the identity of the Document object
RankDocs ==
    LET D(id, class_name, title, quality_score) ==
            [ id |-> id, page_content |-> << "x" >>,
              metadata |-> [ class_name |-> class_name, title |-> title,
                             quality_score |-> quality_score ] ]
        elf == << "e", "l", "f" >>
        orc == << "o", "r", "c" >>
    IN  { D(1, PyS(elf), Absent, PyI(8)),
          D(2, PyS(orc), Absent, PyI(1)),
          D(3, PyS(orc), Absent, PyI(8)),
          D(4, Absent, Absent, PyS(<< "n", "a", "n", "o" >>)),
          D(5, PyNone, Absent, PyNone),
          D(6, PyI(5), Absent, Absent),
          D(7, PyS(<< "e", "l" >>), Absent, PyI(8)),
          D(8, PyS(<< "E", "L", "F" >>), PyS(<< "e", "l", "f", " ", "t", "i", "p", "s" >>), PyS(<< "1" >>)),
          D(9, PyS(elf), Absent, PyI(-100)) }

\* the body of the scoring loop for one document: Raise, or the final score
\* with its class term
ScoreDoc(doc, query_words, character_job) ==
    LET meta       == doc.metadata
        class_name == meta.class_name       \* meta.get("class_name", "")
        title      == meta.title            \* meta.get("title", "")
        quality    == meta.quality_score    \* meta.get("quality_score", 0.0)
        JobIn(s)   == character_job # PyNone /\ Contains(s, character_job.s)
        class_term ==
            IF ~Truthy(class_name) THEN 0
            ELSE LET class_name_lower == Lower(class_name.s)
                 IN  IF JobIn(class_name_lower) THEN 1000
                     ELSE IF \E word \in query_words :
                                 Len(word) > 2 /\ Contains(class_name_lower, word)
                          THEN 300
                          ELSE 0
        title_term ==
            IF ~Truthy(title) THEN 0
            ELSE LET title_lower == Lower(title.s)
                     matching_words ==
                         Cardinality({ word \in query_words :
                                          Contains(title_lower, word) /\ Len(word) > 1 })
                 IN  (IF JobIn(title_lower) THEN 500 ELSE 0) + matching_words * 100
        content_lower ==
            Lower(SubSeq(doc.page_content, 1,
                         IF Len(doc.page_content) < 500 THEN Len(doc.page_content) ELSE 500))
        content_term == IF JobIn(content_lower) THEN 200 ELSE 0
        \* float(s) of a str: its value for a decimal numeral without leading
        \* zeros, ValueError otherwise
        Numeral(s)   == \E n \in 0..99 : IntToStr(n) = s
        quality_value ==
            CASE quality = Absent  -> 0
              [] quality.t = "int" -> quality.i
              [] quality.t = "str" -> CHOOSE n \in 0..99 : IntToStr(n) = quality.s
        quality_boost ==
            IF quality.t = "str" /\ ~Numeral(quality.s) THEN 0      \* except ValueError: pass
            ELSE IF quality_value * 20 < 100 THEN quality_value * 20 ELSE 100
    IN  IF \/ (Truthy(class_name) /\ class_name.t # "str")     \* AttributeError: .lower()
           \/ (Truthy(title) /\ title.t # "str")               \* AttributeError: .lower()
           \/ quality = PyNone                                 \* TypeError: float(None)
        THEN Raise
        ELSE [ id |-> doc.id, class_term |-> class_term,
               final_score |-> 100 + quality_boost + class_term + title_term + content_term ]

\* SearcherFactory.create_bm25_data_from_vectordb (impl "search_factory") and
\* RAGService._create_bm25_data_from_vectordb (impl "rag_service"): one
\* Document per stored document, with the text enriched from the metadata
create_bm25_data_from_vectordb(corpus, impl) ==
    LET Enriched(doc) ==
            LET txt        == doc.page_content
                meta       == doc.metadata
                class_name == meta.class_name      \* meta.get("class_name")
                title      == meta.title           \* meta.get("title")
                quality    == meta.quality_score   \* meta.get("quality_score", 0.0)
                \* if meta: an empty dict is falsy
                meta_truthy == class_name # Absent \/ title # Absent \/ quality # Absent
                \* float(...) > 3.0; ValueError and TypeError are caught
                high_quality ==
                    CASE quality = Absent  -> FALSE
                      [] quality.t = "int" -> quality.i > 3
                      [] quality.t = "str" -> \E n \in 4..99 : IntToStr(n) = quality.s
                      [] OTHER             -> FALSE
            IN  IF ~meta_truthy THEN txt
                ELSE IF impl = "search_factory"
                THEN (IF Truthy(class_name) THEN PyStr(class_name) \o << "<nl>" >> ELSE << >>)
                     \o txt
                     \o (IF high_quality THEN << "<nl>recommended" >> ELSE << >>)
                ELSE (IF Truthy(title) THEN << "title: " >> \o PyStr(title) \o << "<nl>" >> ELSE << >>)
                     \o txt
                     \o (IF Truthy(class_name)
                         THEN << "<nl>class: " >> \o PyStr(class_name) ELSE << >>)
    IN  [ i \in 1..Len(corpus) |->
            [ id |-> corpus[i].id, page_content |-> Enriched(corpus[i]),
              metadata |-> corpus[i].metadata ] ]

RECURSIVE SortDescLastWins(_)
\* a descending sort that puts the later of two equal scores first
SortDescLastWins(scored) ==
    IF scored = << >> THEN << >>
    ELSE LET m == CHOOSE i \in 1..Len(scored) :
                      \A j \in 1..Len(scored) :
                          \/ scored[i].final_score > scored[j].final_score
                          \/ (scored[i].final_score = scored[j].final_score /\ i >= j)
         IN  << scored[m] >> \o
             SortDescLastWins(SubSeq(scored, 1, m - 1) \o SubSeq(scored, m + 1, Len(scored)))

RECURSIVE SortDesc(_)
\* scored_docs.sort(key=lambda x: x[1], reverse=True): descending, and stable
SortDesc(scored) ==
    IF scored = << >> THEN << >>
    ELSE LET m == CHOOSE i \in 1..Len(scored) :
                      \A j \in 1..Len(scored) :
                          \/ scored[i].final_score > scored[j].final_score
                          \/ (scored[i].final_score = scored[j].final_score /\ i <= j)
         IN  << scored[m] >> \o
             SortDesc(SubSeq(scored, 1, m - 1) \o SubSeq(scored, m + 1, Len(scored)))

\* Raise, or the ids of the documents returned (docs) with the score of each
\* input document (scored)
\* a rescoring that stores the default title "" in metadata lacking one
GetRelevantDocumentsFillsTitle(docs, query, top_n, names) ==
    LET query_lower == Lower(query)
        \* set(query_lower.split())
        query_words ==
            { SubSeq(query_lower, i, j) : << i, j >> \in
                { p \in (1..Len(query_lower)) \X (1..Len(query_lower)) :
                    /\ p[1] <= p[2]
                    /\ \A k \in p[1]..p[2] : query_lower[k] # " "
                    /\ (p[1] = 1 \/ query_lower[p[1] - 1] = " ")
                    /\ (p[2] = Len(query_lower) \/ query_lower[p[2] + 1] = " ") } }
        character_job == find_job_in_text(query_lower, names)
        scored_docs == [ i \in 1..Len(docs) |-> ScoreDoc(docs[i], query_words, character_job) ]
    IN  IF \E i \in 1..Len(docs) : scored_docs[i] = Raise THEN Raise
        ELSE LET sorted == SortDesc(scored_docs)
                 kept   == IF Len(sorted) < top_n THEN Len(sorted) ELSE top_n
             IN  [ t |-> "ranked",
                   docs |-> [ i \in 1..kept |-> sorted[i].id ],
                   objects |-> [ i \in 1..kept |->
                                   LET doc == docs[CHOOSE k \in 1..Len(docs) : docs[k].id = sorted[i].id]
                                   IN  IF doc.metadata.title = Absent
                                       THEN [ doc EXCEPT !.metadata.title = PyS(<< >>) ]
                                       ELSE doc ],
                   scored |-> scored_docs ]

get_relevant_documents(docs, query, top_n, names) ==
    LET query_lower == Lower(query)
        \* set(query_lower.split())
        query_words ==
            { SubSeq(query_lower, i, j) : << i, j >> \in
                { p \in (1..Len(query_lower)) \X (1..Len(query_lower)) :
                    /\ p[1] <= p[2]
                    /\ \A k \in p[1]..p[2] : query_lower[k] # " "
                    /\ (p[1] = 1 \/ query_lower[p[1] - 1] = " ")
                    /\ (p[2] = Len(query_lower) \/ query_lower[p[2] + 1] = " ") } }
        character_job == find_job_in_text(query_lower, names)
        scored_docs == [ i \in 1..Len(docs) |-> ScoreDoc(docs[i], query_words, character_job) ]
    IN  IF \E i \in 1..Len(docs) : scored_docs[i] = Raise THEN Raise
        ELSE LET sorted == SortDesc(scored_docs)
                 kept   == IF Len(sorted) < top_n THEN Len(sorted) ELSE top_n
             IN  [ t |-> "ranked",
                   docs |-> [ i \in 1..kept |-> sorted[i].id ],
                   objects |-> [ i \in 1..kept |->
                                   docs[CHOOSE k \in 1..Len(docs) : docs[k].id = sorted[i].id] ],
                   scored |-> scored_docs ]

RankParked ==
    /\ rq = << >>
    /\ rjobs = << >>
    /\ rdocs = << >>
    /\ rtop = top_n_default
    /\ rout = PyNone
    /\ rbm25 = PyNone

RankInit ==
    /\ rq \in RankQueries
    /\ rjobs \in JobNameLists
    /\ \E n \in 1..MaxDocs :
          rdocs \in { l \in [ 1..n -> RankDocs ] :
                        \A i, j \in 1..n : i # j => l[i].id # l[j].id }
    /\ rtop \in { 1, 2, top_n_default }
    /\ rout = PyNone
    /\ rbm25 = PyNone

Rescore ==
    /\ rout = PyNone
    /\ rout' = get_relevant_documents(rdocs, rq, rtop, rjobs)
    /\ UNCHANGED << rq, rjobs, rdocs, rtop, rbm25, keyVars, svcVars, concVars, fnVars, bootVars, thrVars, buildVars >>

\* the documents of the BM25 index are built from the vector store, whose
\* documents are rdocs here, by one of the two services
BuildBm25Data ==
    /\ rbm25 = PyNone
    /\ \E impl \in { "search_factory", "rag_service" } :
          rbm25' = [ by |-> impl, docs |-> create_bm25_data_from_vectordb(rdocs, impl) ]
    /\ UNCHANGED << rq, rjobs, rdocs, rtop, rout, keyVars, svcVars, concVars, fnVars, bootVars, thrVars, buildVars >>

\* C12: of two documents equal in quality_score, title and content, of which
\* exactly one has a class_name matching an entity present in the query, the
\* matching one is placed strictly before the other in the output.
C12_EntityMatchRanksFirst ==
    (rout # PyNone /\ rout # Raise) =>
        LET Matches(d) ==
                /\ d.metadata.class_name.t = "str"
                /\ \E i \in 1..Len(rjobs) :
                      /\ Contains(Lower(rq), Lower(rjobs[i]))
                      /\ Contains(Lower(d.metadata.class_name.s), Lower(rjobs[i]))
            Place(d) == { i \in 1..Len(rout.docs) : rout.docs[i] = d.id }
        IN  \A a, b \in 1..Len(rdocs) :
                ( /\ rdocs[a].metadata.quality_score = rdocs[b].metadata.quality_score
                  /\ rdocs[a].metadata.title = rdocs[b].metadata.title
                  /\ rdocs[a].page_content = rdocs[b].page_content
                  /\ Matches(rdocs[a])
                  /\ ~Matches(rdocs[b]) )
                => \A j \in Place(rdocs[b]) : \E i \in Place(rdocs[a]) : i < j

\* C13: with quality_score missing, None or a non-numeric string and
\* class_name missing, None or not a string, the rescoring does not raise,
\* scores every document at 1.0 or more, and returns every input document
\* when there are at most top_n of them.
C13_MalformedMetadataTolerated ==
    rout # PyNone =>
        /\ rout # Raise
        /\ \A i \in 1..Len(rdocs) : rout.scored[i].final_score >= 100
        /\ Len(rdocs) <= rtop =>
               \A i \in 1..Len(rdocs) : \E k \in 1..Len(rout.docs) : rout.docs[k] = rdocs[i].id

\* C19: the output is in descending order of final score, documents of equal
\* final score keep their input order, and the output is the first top_n
\* documents of that order.
C19_SortedStableTruncated ==
    (rout # PyNone /\ rout # Raise) =>
        LET n         == Len(rdocs)
            out       == rout.docs
            Pos(id)   == CHOOSE i \in 1..n : rdocs[i].id = id
            Score(id) == rout.scored[Pos(id)].final_score
            Before(a, b) ==
                \/ Score(a) > Score(b)
                \/ (Score(a) = Score(b) /\ Pos(a) < Pos(b))
        IN  /\ Len(out) = IF n < rtop THEN n ELSE rtop
            /\ \A i \in 1..Len(out) : \E k \in 1..n : rdocs[k].id = out[i]
            /\ \A i, j \in 1..Len(out) : i < j => Before(out[i], out[j])
            /\ \A k \in 1..n :
                  (\A i \in 1..Len(out) : out[i] # rdocs[k].id)
                  => \A i \in 1..Len(out) : Before(out[i], rdocs[k].id)

\* three documents ranked, two of equal final score among them, one cut off
C19_Witness ==
    /\ rout # PyNone
    /\ rout # Raise
    /\ Len(rdocs) = 3
    /\ Len(rout.docs) = 2
    /\ \E i, j \in 1..3 :
          /\ i < j
          /\ rout.scored[i].final_score = rout.scored[j].final_score
          /\ rout.docs = << rdocs[i].id, rdocs[j].id >>

\* C20: whenever the query contains a job name J and lower(J) is a substring
\* of lower(class_name) or lower(class_name) one of lower(J), the document
\* receives the class-match bonus of 10.0, whatever the letter case of the
\* job list, the query and the metadata.
C20_EntityBonusEitherDirection ==
    (rout # PyNone /\ rout # Raise) =>
        \A k \in 1..Len(rdocs) : \A i \in 1..Len(rjobs) :
            LET J == Lower(rjobs[i])
                class_name == rdocs[k].metadata.class_name
            IN  ( /\ class_name.t = "str"
                  /\ Contains(Lower(rq), J)
                  /\ (Contains(Lower(class_name.s), J) \/ Contains(J, Lower(class_name.s))) )
                => rout.scored[k].class_term = 1000

\* C17: of two calls of search(X, None) in succession on an empty cache, the
\* result of the first reports the time the retrieval took as its internal
\* search time, and the result of the second, a cache hit, reports zero.
C17_CacheHitReportsNoSearchTime ==
    (service = "rag_search" /\ Done /\ call.ctx = NoCtx /\ IsResult(call.ret)) =>
        /\ ~call.hit => call.ret.search_times.internal_search = RetrievalSecs
        /\ (call.hit /\ call.pre.had /\ ncalls = 2 /\ now = RetrievalSecs)
           => call.ret.search_times.internal_search = 0

\* C18: a search call that is not served from the cache goes through
\* enhancing, dispatching, the running branches, merging and done in that
\* order; each branch is started exactly once and never retried; the result
\* is assembled and the cache written only after both branches have
\* finished; and the cache write is made before the call returns.
C18_OrchestratorStateMachine ==
    /\ [] ( /\ call.intStarts <= 1 /\ call.webStarts <= 1
            /\ (call.pc = "save" \/ (Done /\ ~call.hit)) =>
                  /\ call.intSt = "done" /\ call.intStarts = 1
                  /\ Hybrid => (call.webSt = "done" /\ call.webStarts = 1)
                  /\ ~Hybrid => (call.webSt = "off" /\ call.webStarts = 0)
            /\ call.result # PyNone => (call.intSt = "done" /\ call.webSt \in { "done", "off" })
            /\ call.wout # "none" => call.result # PyNone
            /\ (Done /\ ~call.hit) => (call.wout # "none" /\ call.enhanced # << >>) )
    /\ [][ /\ call'.pc # call.pc =>
                << call.pc, call'.pc >> \in
                    { << "idle", "check" >>, << "done", "check" >>, << "done", "idle" >>,
                      << "check", "done" >>, << "check", "enhance" >>,
                      << "enhance", "running" >>, << "running", "save" >>,
                      << "save", "done" >> }
           /\ (call.pc = "check" /\ call'.pc = "done") => call'.hit
           /\ LET name == SearchFile(service, request[1], request[2])
              IN  (name \in DOMAIN files') /\ (name \notin DOMAIN files \/ files'[name] # files[name])
                  => (call.pc = "save" /\ call'.pc = "done")
         ]_vars

\* a hybrid search returned after both branches ran, one of them failing,
\* and the result was written to the cache
C18_Witness ==
    /\ Hybrid /\ Done /\ ~call.hit
    /\ call.intStarts = 1 /\ call.webStarts = 1
    /\ Raised(call.intOut)
    /\ call.wout = "ok"

\* C15: when a branch of a search never completes, its timeout fires, the
\* branch counts as failed with an empty result, and the call still returns:
\* every search call that has dispatched its branches is eventually done.
C15_HungBranchTimesOut == (call.pc = "running") ~> Done

(***************************************************************************)
(* SpecBoot: construction of the service singleton and the calls served.   *)
(*   src/rag/service.py  StructuredRAGService.__init__, _setup_environment, *)
(*                       get_structured_rag_service,                        *)
(*                       get_structured_rag_answer                          *)
(*   src/api/main.py     lifespan                                           *)
(* The service object is an integer: the number of __init__ steps that     *)
(* have completed on it.                                                    *)
(***************************************************************************)
\* os.getenv("GEMINI_API_KEY", ""): unset, blank, set
ApiKeys == { << >>, << " " >>, << "k" >> }

\* the calls StructuredRAGService.__init__ makes, in order
InitCalls ==
    << "_setup_environment", "_initialize_utilities", "_initialize_core_components",
       "_initialize_retrievers", "_setup_llm_and_prompt" >>

\* the key check left out
SetupEnvironmentUnchecked(key) == "ok"

\* _setup_environment: if not self.gemini_api_key: raise RuntimeError
setup_environment(key) == IF key = << >> THEN "raise" ELSE "ok"

NoCtor == [ by |-> "none", done |-> 0 ]

BootParked ==
    /\ bkey = << >> /\ bmode = "library" /\ bserver = "off"
    /\ binst = PyNone /\ bctor = NoCtor
    /\ breq = [ made |-> 0, pc |-> "idle", answered |-> 0, on |-> { } ]

\* the server process begins with lifespan calling get_structured_rag_service
BootInit ==
    /\ bkey \in ApiKeys
    /\ bmode \in { "server", "library" }
    /\ bserver = IF bmode = "server" THEN "starting" ELSE "off"
    /\ binst = PyNone
    /\ bctor = IF bmode = "server" THEN [ by |-> "lifespan", done |-> 0 ] ELSE NoCtor
    /\ breq = [ made |-> 0, pc |-> "idle", answered |-> 0, on |-> { } ]

\* one step of StructuredRAGService(): the next call of __init__ returns or
\* raises.  An exception leaves __init__ and get_structured_rag_service, the
\* global is not assigned; lifespan logs it and raises again, a request fails.
ConstructStep ==
    /\ bctor.by # "none"
    /\ \E outcome \in IF bctor.done = 0 THEN { setup_environment(bkey) }
                                        ELSE { "ok", "raise" } :
          CASE outcome = "raise" ->
                  /\ bctor' = NoCtor
                  /\ bserver' = IF bctor.by = "lifespan" THEN "aborted" ELSE bserver
                  /\ breq' = IF bctor.by = "request" THEN [ breq EXCEPT !.pc = "idle" ] ELSE breq
                  /\ UNCHANGED binst
            [] outcome = "ok" /\ bctor.done + 1 < Len(InitCalls) ->
                  /\ bctor' = [ bctor EXCEPT !.done = @ + 1 ]
                  /\ UNCHANGED << binst, bserver, breq >>
            [] OTHER ->
                  /\ bctor' = NoCtor
                  /\ binst' = PyI(bctor.done + 1)
                  /\ bserver' = IF bctor.by = "lifespan" THEN "serving" ELSE bserver
                  /\ breq' = IF bctor.by = "request" THEN [ breq EXCEPT !.pc = "answer" ] ELSE breq
    /\ UNCHANGED << bkey, bmode, keyVars, svcVars, concVars, fnVars, rankVars, thrVars, buildVars >>

\* get_structured_rag_answer is called: by the endpoint of a serving server,
\* or by a program that imported the package
CallService ==
    /\ breq.pc = "idle"
    /\ breq.made < MaxRequests
    /\ bctor = NoCtor
    /\ bmode = "server" => bserver = "serving"
    /\ IF binst = PyNone
       THEN /\ bctor' = [ by |-> "request", done |-> 0 ]
            /\ breq' = [ breq EXCEPT !.made = @ + 1, !.pc = "constructing" ]
       ELSE /\ bctor' = bctor
            /\ breq' = [ breq EXCEPT !.made = @ + 1, !.pc = "answer" ]
    /\ UNCHANGED << bkey, bmode, bserver, binst, keyVars, svcVars, concVars, fnVars, rankVars, thrVars, buildVars >>

\* service.get_answer(...) runs on the object get_structured_rag_service returned
GetAnswer ==
    /\ breq.pc = "answer"
    /\ breq' = [ breq EXCEPT !.pc = "idle", !.answered = @ + 1, !.on = @ \cup { binst } ]
    /\ UNCHANGED << bkey, bmode, bserver, binst, bctor, keyVars, svcVars, concVars, fnVars, rankVars, thrVars, buildVars >>

\* C16: no query is served unless the initialization completed: get_answer
\* only ever runs on a service whose __init__ ran to its end, a server only
\* serves with such a service, and with GEMINI_API_KEY missing the
\* construction raises in its first step, the server start-up aborts and no
\* get_answer runs at all.
C16_NoQueryBeforeInit ==
    /\ breq.on \subseteq { PyI(Len(InitCalls)) }
    /\ binst \in { PyNone, PyI(Len(InitCalls)) }
    /\ bserver = "serving" => binst = PyI(Len(InitCalls))
    /\ breq.pc = "answer" => binst = PyI(Len(InitCalls))
    /\ bkey = << >> =>
          /\ binst = PyNone
          /\ bctor.done = 0
          /\ breq.answered = 0 /\ breq.pc # "answer"
          /\ bserver \in { "off", "starting", "aborted" }
          /\ (bserver = "starting") = (bctor.by = "lifespan")

\* with the key missing the server start-up has aborted; or a program that
\* imported the package has called the service twice and got two exceptions
C16_Witness ==
    /\ bkey = << >>
    /\ \/ bserver = "aborted"
       \/ (bmode = "library" /\ breq.made = 2 /\ breq.pc = "idle" /\ bctor = NoCtor)

\* C21: the BM25 index is stored under a fixed file name with the long
\* expiry: a stored, readable index younger than 24 hours is reused, it is
\* not built again.
C21_Bm25ReusedWithinLongExpiry ==
    ( /\ loc.file = get_bm25_retriever.file
      /\ loc.existed /\ ~loc.corrupt
      /\ loc.age < expiry_long )
    => (loc.creates = 0 /\ loc.wout = "none")

\* C22: the BM25 data has exactly one document per stored document, in
\* order and with the metadata unchanged; its text is the raw content with
\* the class_name, when present, prepended once and the title, when present,
\* prepended as a labelled line, and nothing else added.
C22_Bm25TextIsClassTitleContent ==
    rbm25 # PyNone =>
        /\ Len(rbm25.docs) = Len(rdocs)
        /\ \A i \in 1..Len(rdocs) :
              LET text       == rbm25.docs[i].page_content
                  raw        == rdocs[i].page_content
                  class_name == rdocs[i].metadata.class_name
                  title      == rdocs[i].metadata.title
                  class_line == IF Truthy(class_name)
                                THEN PyStr(class_name) \o << "<nl>" >> ELSE << >>
              IN  /\ rbm25.docs[i].metadata = rdocs[i].metadata
                  /\ rbm25.docs[i].id = rdocs[i].id
                  /\ Len(text) >= Len(raw)
                  /\ SubSeq(text, Len(text) - Len(raw) + 1, Len(text)) = raw
                  /\ Truthy(title) =>
                        \E label \in { << >>, << "title: " >> } :
                            text \in { label \o PyStr(title) \o << "<nl>" >> \o class_line \o raw,
                                       class_line \o label \o PyStr(title) \o << "<nl>" >> \o raw }
                  /\ ~Truthy(title) => text = class_line \o raw

\* C23: with a character context present, the enhanced query holds every
\* recognized field the context has (job, fame, weapon) as a tagged token
\* "field::value", and the tokens stand in the fixed order job, fame, weapon.
C23_EnhancedQueryTagsEveryField ==
    \A i \in 1..Len(fenh) :
        CtxTruthy(fctx) =>
            LET out        == fenh[i]
                order      == << "job", "fame", "weapon" >>
                present(k) == Truthy(CtxGet(fctx, order[k]))
                token(k)   == << order[k], "::" >> \o PyStr(CtxGet(fctx, order[k]))
                at(k)      == { p \in 1..Len(out) :
                                  /\ p + Len(token(k)) - 1 <= Len(out)
                                  /\ SubSeq(out, p, p + Len(token(k)) - 1) = token(k) }
            IN  /\ \A k \in 1..3 : present(k) => at(k) # { }
                /\ \A k, l \in 1..3 :
                      (k < l /\ present(k) /\ present(l)) =>
                          \E p \in at(k), r \in at(l) : p < r

\* C25: a degraded result is kept like any other.  When the internal
\* retrieval of a rag_search raises, the result with empty internal_docs is
\* written to the cache; a later rag_search for the same query and context
\* within the short expiry returns that empty result and retrieves nothing.
C25_DegradedResultCached ==
    service = "rag_search" =>
        /\ (Done /\ call.intOut = Raise) =>
              /\ IsResult(call.ret) /\ call.ret.internal_docs = << >>
              /\ call.wout = "ok" =>
                    LET name == SearchFile(service, call.query, call.ctx)
                    IN  /\ name \in DOMAIN files
                        /\ PickleLoad(files[name].data) = [ ok |-> TRUE, obj |-> call.ret ]
        /\ (Done /\ call.pre.had /\ call.pre.R.internal_docs = << >>) =>
              /\ call.hit
              /\ call.ret = call.pre.R
              /\ call.intStarts = 0 /\ call.intOut = NotRun

\* the retrieval of the first call raised and its empty result was saved;
\* the second call has been answered from the cache
C25_Witness ==
    /\ service = "rag_search"
    /\ Done /\ call.prevInt = Raise
    /\ call.pre.had /\ call.hit
    /\ call.ret.internal_docs = << >>
    /\ call.intStarts = 0

\* C26: a cache hit leaves the cache as it was.  The step that serves a
\* search result or an artifact from the cache changes no file: the file
\* served still has the modification time of its write, and it is served
\* only at an age below its expiry, however often it was served before.
C26_HitLeavesCacheUnchanged ==
    /\ [] ( /\ call.hit =>
                 LET name == SearchFile(service, call.query, call.ctx)
                 IN  /\ name \in DOMAIN files
                     /\ now - files[name].mtime < expiry_short
                     /\ files[name].mtime = now - call.chk.age
                     /\ name \in DOMAIN saved => files[name].mtime = saved[name].at
            /\ (loc.existed /\ loc.creates = 0) =>
                 /\ loc.age < loc.expiry
                 /\ files[loc.file].mtime = now - loc.age
                 /\ PickleLoad(files[loc.file].data) = [ ok |-> TRUE, obj |-> loc.ret ] )
    /\ [][ ( \/ (call.pc = "check" /\ call'.hit)
             \/ (loc' # loc /\ loc'.existed /\ loc'.creates = 0) )
           => files' = files ]_vars

\* the cross-encoder file written at time 0 has been served 12 hours later
C26_Witness ==
    /\ loc.existed /\ loc.creates = 0
    /\ loc.expiry = expiry_long /\ loc.age = expiry_short
    /\ files[loc.file].mtime = 0 /\ now = expiry_short

\* C27: rescoring neither invents nor alters documents.  The output has
\* min(len(input), top_n) documents, each is one of the documents the base
\* retriever returned with its content and metadata as they were, and none
\* is there twice; with the default top_n it has at most 40 documents.
C27_RescoreKeepsDocuments ==
    (rout # PyNone /\ rout # Raise) =>
        LET out == rout.objects
            n   == Len(rdocs)
        IN  /\ Len(out) = IF n < rtop THEN n ELSE rtop
            /\ \A i \in 1..Len(out) : \E k \in 1..n : out[i] = rdocs[k]
            /\ \A i, j \in 1..Len(out) : i # j => out[i].id # out[j].id
            /\ [ i \in 1..Len(out) |-> out[i].id ] = rout.docs
            /\ rtop = top_n_default => Len(out) <= top_n_default

\* three documents rescored with top_n = 2, none of them with a title: two
\* come back
C27_Witness ==
    /\ rout # PyNone /\ rout # Raise
    /\ Len(rdocs) = 3 /\ rtop = 2
    /\ Len(rout.objects) = 2
    /\ \A i \in 1..2 : rout.objects[i].metadata.title = Absent

\* C28: the quality term never outweighs an exact entity match.  A document
\* whose class_name contains the job found in the query is ranked before
\* every document without any class, title or content match, whatever the
\* quality_score of either is; the quality term adds at most 1.0.
C28_QualityNeverOutweighsEntity ==
    (rout # PyNone /\ rout # Raise) =>
        LET n == Len(rdocs)
            \* the document received the bonus of 10.0
            ClassMatch(k) == rout.scored[k].class_term = 1000
            \* no class term and no title; the page content of every document
            \* here is "x", which holds no job name
            Unmatched(k)  == rout.scored[k].class_term = 0 /\ ~Truthy(rdocs[k].metadata.title)
        IN  /\ \A k \in 1..n : Unmatched(k) => rout.scored[k].final_score <= 100 + 100
            /\ \A a, b \in 1..n :
                  (ClassMatch(a) /\ Unmatched(b)) =>
                      /\ rout.scored[a].final_score > rout.scored[b].final_score
                      /\ \A j \in 1..Len(rout.docs) :
                            rout.docs[j] = rdocs[b].id =>
                                \E i \in 1..(j - 1) : rout.docs[i] = rdocs[a].id

(***************************************************************************)
(* SpecThreads: caller threads of one process, each making one             *)
(* get_structured_rag_answer call whose search misses the cache.  A step   *)
(* is one read or write of the module global or of an attribute of the     *)
(* service object; the interpreter may switch threads between any two.     *)
(***************************************************************************)
NumCallers == 2
MaxCtorFailures == 1

Callers == 1..NumCallers

ThrParked ==
    /\ instance = 0 /\ objects = << >> /\ thr = << >>

ThrInit ==
    /\ instance = 0
    /\ objects = << >>
    /\ thr \in [ Callers -> [ pc : { "call" }, query : FnQueries, svc : { 0 },
                              weights : { PyNone }, used : { PyNone },
                              failures : { 0 } ] ]

\* if _structured_rag_service_instance is None:
CheckInstance(t) ==
    /\ thr[t].pc = "call"
    /\ thr' = [ thr EXCEPT ![t].pc = IF instance = 0 THEN "construct" ELSE "return" ]
    /\ UNCHANGED << instance, objects, keyVars, svcVars, concVars, fnVars, rankVars, bootVars, buildVars >>

\* _structured_rag_service_instance = StructuredRAGService(): the global is
\* assigned when the constructor has returned; a constructor that raises
\* ends the call with the global untouched, and the caller calls again
ConstructInstance(t) ==
    /\ thr[t].pc = "construct"
    /\ \/ /\ objects' = Append(objects, [ internal_retriever |-> PyNone ])
          /\ instance' = Len(objects) + 1
          /\ thr' = [ thr EXCEPT ![t].pc = "return" ]
       \/ /\ thr[t].failures < MaxCtorFailures
          /\ thr' = [ thr EXCEPT ![t].pc = "call", ![t].failures = @ + 1 ]
          /\ UNCHANGED << instance, objects >>
    /\ UNCHANGED << keyVars, svcVars, concVars, fnVars, rankVars, bootVars, buildVars >>

\* return _structured_rag_service_instance
ReturnInstance(t) ==
    /\ thr[t].pc = "return"
    /\ thr' = [ thr EXCEPT ![t].pc = "rag_search", ![t].svc = instance ]
    /\ UNCHANGED << instance, objects, keyVars, svcVars, concVars, fnVars, rankVars, bootVars, buildVars >>

\* rag_search up to self.internal_retriever = MetadataAwareRetriever(...):
\* the chain is built around an ensemble with this query's weights and
\* stored in the attribute of the service object
InstallRetriever(t) ==
    /\ thr[t].pc = "rag_search"
    /\ LET weights == determine_weights(thr[t].query, NoCtx)
       IN  /\ objects' = [ objects EXCEPT ![thr[t].svc].internal_retriever = weights ]
           /\ thr' = [ thr EXCEPT ![t].pc = "search", ![t].weights = weights ]
    /\ UNCHANGED << instance, keyVars, svcVars, concVars, fnVars, rankVars, bootVars, buildVars >>

\* _search_internal: docs = self.internal_retriever.get_relevant_documents(...)
SearchInternal(t) ==
    /\ thr[t].pc = "search"
    /\ thr' = [ thr EXCEPT ![t].pc = "done",
                           ![t].used = objects[thr[t].svc].internal_retriever ]
    /\ UNCHANGED << instance, objects, keyVars, svcVars, concVars, fnVars, rankVars, bootVars, buildVars >>

ThrStep ==
    \E t \in Callers :
        \/ CheckInstance(t) \/ ConstructInstance(t) \/ ReturnInstance(t)
        \/ InstallRetriever(t) \/ SearchInternal(t)

\* C24: a search on a service object that other searches run on at the
\* same time retrieves with the ensemble weights determined for its own
\* query.
C24_OwnWeightsUnderInterleaving ==
    \A t \in DOMAIN thr :
        thr[t].pc = "done" => thr[t].used = determine_weights(thr[t].query, NoCtx)

\* C29: at most one StructuredRAGService is constructed in the process and
\* every call returns that one object, also when the first calls run at the
\* same time; a constructor that raised installs nothing.
C29_OneInstancePerProcess ==
    /\ Len(objects) <= 1
    /\ \A t, u \in DOMAIN thr :
          (thr[t].svc # 0 /\ thr[u].svc # 0) => thr[t].svc = thr[u].svc
    /\ instance # 0 => instance \in 1..Len(objects)

(***************************************************************************)
(* SpecBuild: runs of the incremental vector-store build.  Between runs    *)
(* the preprocessing adds documents to the processed-documents file.  A    *)
(* run reads the recorded ids, loads the documents not recorded, adds them *)
(* in batches and saves the id cache.  add_documents may raise for a       *)
(* batch, which then adds nothing; reading the ids of the store and        *)
(* writing the cache file may fail, which the code logs and goes on.       *)
(***************************************************************************)
MaxIds == 3
BatchSize == 2
MaxRuns == 3
MaxAddFailures == 1
MaxSaveFailures == 1
MaxDbReadFailures == 1

BuildParked ==
    /\ processed_docs = { }
    /\ vdb = [ d \in 1..MaxIds |-> 0 ]
    /\ idcache = [ state |-> "absent", ids |-> { } ]
    /\ run = [ pc |-> "idle", nruns |-> 0, existing |-> { }, all_docs |-> << >>, i |-> 0,
               new_doc_ids |-> { }, failed |-> { }, prevFailed |-> { },
               addFails |-> 0, saveFails |-> 0, dbFails |-> 0, saved |-> "none" ]

\* a missing file and a file json.load cannot read both give the empty set
load_vectordb_cache(f) == IF f.state = "ok" THEN f.ids ELSE { }

\* open(.., 'w') truncates the file; an error, before or after, is only logged
save_vectordb_cache(f, processed_ids, outcome) ==
    CASE outcome = "ok"         -> [ state |-> "ok", ids |-> processed_ids ]
      [] outcome = "open_fails" -> f
      [] outcome = "dump_fails" -> [ state |-> "broken", ids |-> { } ]

\* the doc_id of every stored document; vectordb.get() raising gives set()
get_existing_doc_ids_from_db(db, outcome) ==
    IF outcome = "ok" THEN { d \in DOMAIN db : db[d] > 0 } ELSE { }

\* the documents of the file, in file order, whose id is not in existing_ids
load_docs(path, existing_ids) ==
    LET new == path \ existing_ids
    IN  [ k \in 1..Cardinality(new) |->
            CHOOSE d \in new : Cardinality({ e \in new : e < d }) = k - 1 ]

\* the preprocessing appends a document to the processed-documents file
GrowCorpus ==
    /\ run.pc = "idle"
    /\ \E d \in (1..MaxIds) \ processed_docs : processed_docs' = processed_docs \cup { d }
    /\ UNCHANGED << vdb, idcache, run, keyVars, svcVars, concVars, fnVars, rankVars, bootVars, thrVars >>

\* main() up to the batch loop
StartRun ==
    /\ run.pc = "idle"
    /\ run.nruns < MaxRuns
    /\ \E outcome \in IF run.dbFails < MaxDbReadFailures THEN { "ok", "get_fails" } ELSE { "ok" } :
         LET cached_ids   == load_vectordb_cache(idcache)
             db_ids       == get_existing_doc_ids_from_db(vdb, outcome)
             existing_ids == cached_ids \cup db_ids
             all_docs     == load_docs(processed_docs, existing_ids)
         IN  run' = [ run EXCEPT !.pc = IF all_docs = << >> THEN "idle" ELSE "batch",
                                 !.nruns = @ + 1,
                                 !.existing = existing_ids, !.all_docs = all_docs, !.i = 0,
                                 !.new_doc_ids = { }, !.failed = { },
                                 !.prevFailed = run.failed, !.saved = "none",
                                 !.dbFails = IF outcome = "ok" THEN @ ELSE @ + 1 ]
    /\ UNCHANGED << processed_docs, vdb, idcache, keyVars, svcVars, concVars, fnVars, rankVars, bootVars, thrVars >>

\* one pass of the batch loop: vectordb.add_documents(batch) inside try/except
AddBatch ==
    /\ run.pc = "batch"
    /\ LET total == Len(run.all_docs)
           last  == IF run.i + BatchSize < total THEN run.i + BatchSize ELSE total
           batch == { run.all_docs[k] : k \in (run.i + 1)..last }
           pc    == IF run.i + BatchSize < total THEN "batch" ELSE "save"
       IN  \/ /\ vdb' = [ d \in DOMAIN vdb |-> IF d \in batch THEN vdb[d] + 1 ELSE vdb[d] ]
              /\ run' = [ run EXCEPT !.pc = pc, !.i = @ + BatchSize,
                                     !.new_doc_ids = @ \cup batch ]
           \/ /\ run.addFails < MaxAddFailures
              /\ vdb' = vdb
              /\ run' = [ run EXCEPT !.pc = pc, !.i = @ + BatchSize,
                                     !.failed = @ \cup batch, !.addFails = @ + 1 ]
    /\ UNCHANGED << processed_docs, idcache, keyVars, svcVars, concVars, fnVars, rankVars, bootVars, thrVars >>

\* if new_doc_ids: save_vectordb_cache(existing_ids.union(new_doc_ids))
SaveCache ==
    /\ run.pc = "save"
    /\ IF run.new_doc_ids = { }
       THEN /\ idcache' = idcache
            /\ run' = [ run EXCEPT !.pc = "idle" ]
       ELSE \E outcome \in IF run.saveFails < MaxSaveFailures
                           THEN { "ok", "open_fails", "dump_fails" } ELSE { "ok" } :
              /\ idcache' = save_vectordb_cache(idcache, run.existing \cup run.new_doc_ids, outcome)
              /\ run' = [ run EXCEPT !.pc = "idle", !.saved = outcome,
                                     !.saveFails = IF outcome = "ok" THEN @ ELSE @ + 1 ]
    /\ UNCHANGED << processed_docs, vdb, keyVars, svcVars, concVars, fnVars, rankVars, bootVars, thrVars >>

\* C30: over any sequence of build runs a document whose id is recorded, in
\* the vector store or in the id cache, is not added again; the ids of a
\* batch whose add_documents failed are not in the cache and are loaded
\* again by the next run; after a run the saved id set is the set recorded
\* before the run united with the ids of the batches that were added.
C30_IncrementalBuildRecordsIds ==
    /\ \A d \in DOMAIN vdb : vdb[d] <= 1
    /\ run.new_doc_ids \cap run.existing = { }
    /\ run.failed \cap load_vectordb_cache(idcache) = { }
    /\ run.prevFailed \subseteq { run.all_docs[k] : k \in 1..Len(run.all_docs) }
    /\ (run.pc = "idle" /\ run.nruns > 0) =>
          load_vectordb_cache(idcache) = run.existing \cup run.new_doc_ids

(***************************************************************************)
(* The specifications.                                                     *)
(***************************************************************************)
KeyStart == KeyInit /\ SvcParked /\ ConcParked /\ FnParked /\ RankParked /\ BootParked /\ ThrParked /\ BuildParked
SpecKey  == KeyStart /\ [][ComputeKeys]_vars

Init == KeyParked /\ SvcInit /\ ConcParked /\ FnParked /\ RankParked /\ BootParked /\ ThrParked /\ BuildParked
Next ==
    \/ TickClock
    \/ \E a \in Artifacts : LoadOrCreate(a)
    \/ StartCall
    \/ CheckCache
    \/ Enhance
    \/ IntRun
    \/ WebRun
    \/ Merge
    \/ Save
Spec == Init /\ [][Next]_vars

\* the interpreter schedules every thread that can take a step
SpecLive == Spec /\ WF_vars(Next)

ConcStart == KeyParked /\ SvcParked /\ ConcInit /\ FnParked /\ RankParked /\ BootParked /\ ThrParked /\ BuildParked
SpecConc  == ConcStart /\ [][ConcStep]_vars

FnStart == KeyParked /\ SvcParked /\ ConcParked /\ FnInit /\ RankParked /\ BootParked /\ ThrParked /\ BuildParked
SpecFn  == FnStart /\ [][DetermineWeights \/ EnhanceQuery]_vars

RankStart == KeyParked /\ SvcParked /\ ConcParked /\ FnParked /\ RankInit /\ BootParked /\ ThrParked /\ BuildParked
SpecRank  == RankStart /\ [][Rescore \/ BuildBm25Data]_vars

BootStart == KeyParked /\ SvcParked /\ ConcParked /\ FnParked /\ RankParked /\ BootInit /\ ThrParked /\ BuildParked
SpecBoot  == BootStart /\ [][ConstructStep \/ CallService \/ GetAnswer]_vars

ThrStart == KeyParked /\ SvcParked /\ ConcParked /\ FnParked /\ RankParked /\ BootParked /\ ThrInit /\ BuildParked
SpecThreads == ThrStart /\ [][ThrStep]_vars

\* the first run starts with an empty store and without an id cache
BuildStart == KeyParked /\ SvcParked /\ ConcParked /\ FnParked /\ RankParked /\ BootParked /\ ThrParked /\ BuildParked
SpecBuild  == BuildStart /\ [][GrowCorpus \/ StartRun \/ AddBatch \/ SaveCache]_vars

====
